---- MODULE Spec2Model ----
(***************************************************************************)
(* Model of client/vite.config.js: the evaluation of the module's object   *)
(* literal (plugins, base, server, preview), the defineConfig call that    *)
(* exports it, and the two consumers (dev and preview start-up) that read  *)
(* the exported object.                                                    *)
(*                                                                         *)
(* JavaScript values are records [type, str, num]; a JavaScript string is  *)
(* a sequence of one-character strings, so that emptiness, first and last  *)
(* character and decimal parsing are computed and not assumed.             *)
(***************************************************************************)
EXTENDS Integers, Sequences, FiniteSets, TLC

\* ---------------------------------------------------------------- bounds
MaxLen == 5

MaxReads == 2

\* characters a PORT value is built from: digits (enough for 0, 3000, 65535,
\* 65536, 99999), a sign and a letter
Alphabet == {"0", "3", "5", "6", "9", "-", "a"}

PortStrings == UNION {[1..n -> Alphabet] : n \in 0..MaxLen}

\* ------------------------------------------------------ JavaScript values
Undefined == [type |-> "undefined", str |-> <<>>, num |-> 0]

Str(s) == [type |-> "string", str |-> s, num |-> 0]

Num(n) == [type |-> "number", str |-> <<>>, num |-> n]

\* process.env: a mapping whose keys may or may not include PORT
Environments == UNION {[D -> PortStrings] : D \in SUBSET {"PORT"}}

\* process.env.PORT : undefined when the key is absent, else the string
GetEnv(e, k) == IF k \in DOMAIN e THEN Str(e[k]) ELSE Undefined

\* `??` instead of `||`: only undefined counts as missing
TruthyNullish(v) == v.type # "undefined"

\* JavaScript truthiness of undefined / string / number
Truthy(v) ==
  CASE v.type = "undefined" -> FALSE
    [] v.type = "string"    -> v.str # <<>>
    [] v.type = "number"    -> v.num # 0

\* `a && b` written for `a || b`
OrAsAnd(a, b) == IF Truthy(a) THEN b ELSE a

\* a || b
Or(a, b) == IF Truthy(a) THEN a ELSE b

DefaultPort == 3000

\* ------------------------------------------------- the literal's members
react == "plugin-react-swc"

BaseNoTrailingSlash ==
  <<"/", "N", "A", "S", "A", "S", "p", "a", "c", "e", "A", "p", "p", "s",
    "C", "h", "a", "l", "l", "e", "n", "g", "e", "2", "0", "2", "4">>

\* base: '/NASASpaceAppsChallenge2024/'
Base ==
  <<"/", "N", "A", "S", "A", "S", "p", "a", "c", "e", "A", "p", "p", "s",
    "C", "h", "a", "l", "l", "e", "n", "g", "e", "2", "0", "2", "4", "/">>

\* server.port: process.env.PORT || 3000
ServerPort(e) == Or(GetEnv(e, "PORT"), Num(DefaultPort))

\* server.host: '0.0.0.0'
ServerHost == <<"0", ".", "0", ".", "0", ".", "0">>

\* a preview port falling back to the bundler's own preview default
PreviewPortOwnDefault(e) == Or(GetEnv(e, "PORT"), Num(4173))

\* preview.port: process.env.PORT || 3000  (a second, separate read)
PreviewPort(e) == Or(GetEnv(e, "PORT"), Num(DefaultPort))

PreviewHostLocal == <<"l", "o", "c", "a", "l", "h", "o", "s", "t">>

\* preview.host: '0.0.0.0'
PreviewHost == <<"0", ".", "0", ".", "0", ".", "0">>

\* defineConfig is the identity on a plain object
defineConfig(c) == c

\* ------------------------------------------------------------------ state
VARIABLES env, pc, config, devSeen, previewSeen, devReads, previewReads

vars == <<env, pc, config, devSeen, previewSeen, devReads, previewReads>>

NoServer == [port |-> Undefined, host |-> <<>>]

EmptyConfig ==
  [plugins |-> <<>>, base |-> <<>>, server |-> NoServer, preview |-> NoServer]

Init ==
  /\ env \in Environments
  /\ pc = "plugins"
  /\ config = EmptyConfig
  /\ devSeen = NoServer
  /\ previewSeen = NoServer
  /\ devReads = 0
  /\ previewReads = 0

\* plugins: [react()]
EvalPlugins ==
  /\ pc = "plugins"
  /\ config' = [config EXCEPT !.plugins = <<react>>]
  /\ pc' = "base"
  /\ UNCHANGED <<env, devSeen, previewSeen, devReads, previewReads>>

EvalBase ==
  /\ pc = "base"
  /\ config' = [config EXCEPT !.base = Base]
  /\ pc' = "server"
  /\ UNCHANGED <<env, devSeen, previewSeen, devReads, previewReads>>

EvalServer ==
  /\ pc = "server"
  /\ config' = [config EXCEPT !.server =
                  [port |-> ServerPort(env), host |-> ServerHost]]
  /\ pc' = "preview"
  /\ UNCHANGED <<env, devSeen, previewSeen, devReads, previewReads>>

\* preview evaluated as `process.env.PORT ||= 3000`: the read writes back
EvalPreviewAssignsEnv ==
  /\ pc = "preview"
  /\ config' = [config EXCEPT !.preview =
                  [port |-> PreviewPort(env), host |-> PreviewHost]]
  /\ env' = IF Truthy(GetEnv(env, "PORT"))
              THEN env
              ELSE [k \in {"PORT"} |-> <<"3", "0", "0", "0">>]
  /\ pc' = "define"
  /\ UNCHANGED <<devSeen, previewSeen, devReads, previewReads>>

EvalPreview ==
  /\ pc = "preview"
  /\ config' = [config EXCEPT !.preview =
                  [port |-> PreviewPort(env), host |-> PreviewHost]]
  /\ pc' = "define"
  /\ UNCHANGED <<env, devSeen, previewSeen, devReads, previewReads>>

\* export default defineConfig({...})
DefineConfig ==
  /\ pc = "define"
  /\ config' = defineConfig(config)
  /\ pc' = "done"
  /\ UNCHANGED <<env, devSeen, previewSeen, devReads, previewReads>>

\* dev(): binds to server.host:server.port of the exported object
DevRead ==
  /\ pc = "done"
  /\ devReads < MaxReads
  /\ devSeen' = config.server
  /\ devReads' = devReads + 1
  /\ UNCHANGED <<env, pc, config, previewSeen, previewReads>>

\* preview(): binds to preview.host:preview.port of the exported object
PreviewRead ==
  /\ pc = "done"
  /\ previewReads < MaxReads
  /\ previewSeen' = config.preview
  /\ previewReads' = previewReads + 1
  /\ UNCHANGED <<env, pc, config, devSeen, devReads>>

Next ==
  \/ EvalPlugins
  \/ EvalBase
  \/ EvalServer
  \/ EvalPreview
  \/ DefineConfig
  \/ DevRead
  \/ PreviewRead

Spec == Init /\ [][Next]_vars

\* ------------------------------------------- reading PORT as a port number
IsDigit(c) == c \in {"0", "1", "2", "3", "4", "5", "6", "7", "8", "9"}

DigitVal(c) ==
  CASE c = "0" -> 0 [] c = "1" -> 1 [] c = "2" -> 2 [] c = "3" -> 3
    [] c = "4" -> 4 [] c = "5" -> 5 [] c = "6" -> 6 [] c = "7" -> 7
    [] c = "8" -> 8 [] c = "9" -> 9

RECURSIVE DecVal(_)
DecVal(s) ==
  IF s = <<>> THEN 0
  ELSE 10 * DecVal(SubSeq(s, 1, Len(s) - 1)) + DigitVal(s[Len(s)])

AllDigits(s) == s # <<>> /\ \A i \in 1..Len(s) : IsDigit(s[i])

\* s is a decimal integer in [0, 65535]
ParsesAsPort(s) == AllDigits(s) /\ DecVal(s) <= 2^16 - 1

Done == pc = "done"

PortPresent == "PORT" \in DOMAIN env

PortAbsentOrEmpty == ~PortPresent \/ env["PORT"] = <<>>

PortValid == PortPresent /\ ParsesAsPort(env["PORT"])

PortInvalid == PortPresent /\ env["PORT"] # <<>> /\ ~ParsesAsPort(env["PORT"])

LoadStep == EvalPlugins \/ EvalBase \/ EvalServer \/ EvalPreview \/ DefineConfig

\* C1: when PORT is absent or the empty string, loading runs to completion
\* and both the dev server port and the preview server port are the
\* integer 3000.
C1_AbsentPortDefaults ==
  PortAbsentOrEmpty =>
    /\ ~Done => ENABLED LoadStep
    /\ Done => /\ config.server.port = Num(3000)
               /\ config.preview.port = Num(3000)

C1_Witness ==
  /\ Done
  /\ PortPresent
  /\ env["PORT"] = <<>>
  /\ config.server.port = Num(3000)
  /\ config.preview.port = Num(3000)

\* C2: when PORT parses as an integer n in [0,65535], both ports of the
\* loaded configuration are the number n, not the string.
C2_ParsedPortIsInteger ==
  (Done /\ PortValid) =>
    /\ config.server.port = Num(DecVal(env["PORT"]))
    /\ config.preview.port = Num(DecVal(env["PORT"]))

\* C3: when PORT is present, non-empty and not an integer in [0,65535],
\* loading fails: no configuration is ever produced.
C3_InvalidPortFails == PortInvalid => ~Done

\* C4: when PORT is present, non-empty and invalid, the loaded configuration
\* never carries the default port 3000 in either server block.
C4_NoDefaultForInvalid ==
  (Done /\ PortInvalid) =>
    /\ config.server.port # Num(3000)
    /\ config.preview.port # Num(3000)

C4_Witness ==
  /\ Done
  /\ PortPresent
  /\ env["PORT"] = <<"-", "3">>
  /\ config.server.port = Str(<<"-", "3">>)
  /\ config.preview.port = Str(<<"-", "3">>)

\* C5: in every loaded configuration, whatever the environment, the dev
\* server host and the preview server host are both "0.0.0.0".
C5_HostIsAllInterfaces ==
  Done =>
    /\ config.server.host = <<"0", ".", "0", ".", "0", ".", "0">>
    /\ config.preview.host = <<"0", ".", "0", ".", "0", ".", "0">>

C5_Witness ==
  /\ Done
  /\ PortPresent
  /\ env["PORT"] = <<"6", "5", "5", "3", "5">>
  /\ config.server.host = <<"0", ".", "0", ".", "0", ".", "0">>
  /\ config.preview.host = <<"0", ".", "0", ".", "0", ".", "0">>

\* C6: in every loaded configuration, whatever the environment, the base
\* path is "/NASASpaceAppsChallenge2024/": non-empty, beginning and ending
\* with "/".
C6_BasePathFixed ==
  Done =>
    /\ config.base # <<>>
    /\ Head(config.base) = "/"
    /\ config.base[Len(config.base)] = "/"
    /\ Len(config.base) = 28
    /\ SubSeq(config.base, 2, 27) =
         <<"N", "A", "S", "A", "S", "p", "a", "c", "e", "A", "p", "p", "s",
           "C", "h", "a", "l", "l", "e", "n", "g", "e", "2", "0", "2", "4">>

C6_Witness ==
  /\ Done
  /\ PortPresent
  /\ env["PORT"] = <<"a">>
  /\ Len(config.base) = 28
  /\ config.base[28] = "/"

\* C8: in every loaded configuration both ports are numbers lying in
\* [0,65535], never strings and never out of range.
C8_PortIsIntegerInRange ==
  Done =>
    /\ config.server.port.type = "number"
    /\ config.server.port.num \in 0..(2^16 - 1)
    /\ config.preview.port.type = "number"
    /\ config.preview.port.num \in 0..(2^16 - 1)

\* C9: in every loaded configuration the dev server port equals the preview
\* server port; the dev port is already resolved, with its own fallback,
\* before the preview block is evaluated.
C9_PortsAgree ==
  /\ pc \in {"preview", "define", "done"} =>
       config.server.port = Or(GetEnv(env, "PORT"), Num(3000))
  /\ pc = "preview" => config.preview.port = Undefined
  /\ Done => config.server.port = config.preview.port

C9_Witness ==
  /\ Done
  /\ ~PortPresent
  /\ config.server.port = Num(3000)
  /\ config.preview.port = Num(3000)

\* C10: loading never changes the environment; once the configuration is
\* built no step changes it; and every read by the dev or the preview
\* start-up path, in any interleaving, sees the values fixed at construction.
C10_ImmutableAfterConstruction ==
  [][ /\ env' = env
      /\ Done => (Done' /\ config' = config)
      /\ devReads' > 0 => devSeen' = config'.server
      /\ previewReads' > 0 => previewSeen' = config'.preview ]_vars

C10_Witness ==
  /\ Done
  /\ devReads > 1
  /\ previewReads > 1
  /\ devSeen = config.server
  /\ previewSeen = config.preview

====
